---- MODULE Spec2Model ----
(***************************************************************************)
(* Model of package errc (github.com/mpvl/errc): the error funnel          *)
(* (Catcher), its handler chains, its own defer stack and the interplay    *)
(* of Must, Defer and Handle with Go's panic/recover.                      *)
(*                                                                         *)
(* One user function is modelled: it calls Catch, defers Handle, and then  *)
(* executes a body of Must / Defer calls, possibly panicking.  The Go call *)
(* stack is the sequence `frames` (top first); a panic in flight is        *)
(* `panicking`.  Cleanup actions and handlers are user code: what they do  *)
(* (return nil, return an error, panic, call Must) is chosen by \E.        *)
(***************************************************************************)
EXTENDS Integers, Sequences, FiniteSets, TLC

\* Bounds of the model: calls made by the body of the user function.
MaxDefers == 2
MaxMust == 2

(***************************************************************************)
(* Values                                                                  *)
(***************************************************************************)
\* error values: nil, intErr(n) (handler_test.go), and the error Handle
\* makes of a non-error panic payload.
Nil == [k |-> "nil", v |-> 0]
intErr(n) == [k |-> "intErr", v |-> n]
Paniced(n) == [k |-> "paniced", v |-> n]

\* panic payloads, as seen by recover(): nil when not panicking, the private
\* sentinel, an error value intErr(n), or a non-error value n.
NoPanic == [k |-> "none", v |-> 0]
errOurPanic == [k |-> "errOurPanic", v |-> 0]
PanicErr(n) == [k |-> "error", v |-> n]
PanicVal(n) == [k |-> "value", v |-> n]

\* Inputs of the user code.
\* The body panics with an error value or with another value; the n-th
\* Must of the body is given intErr(n) or nil; cleanup action id returns
\* nil or intErr(10 + id), or panics, or calls Must with intErr(20 + id).
Payloads == {PanicErr(8), PanicVal(9)}
BoomPayload == PanicVal(5)
MustErrs(n) == {Nil, intErr(n)}
CleanupErr(id) == intErr(10 + id)
CleanupMustErr(id) == intErr(20 + id)
CleanupPayload(id) == IF id % 2 = 1 THEN PanicVal(30 + id) ELSE PanicErr(30 + id)
DefaultChains == {<<>>, <<"inc">>, <<"Discard">>, <<"Fatal">>}
CallChains == {<<>>, <<"inc", "inc">>, <<"Discard", "inc">>, <<"boom">>}
DeferChains == {<<>>, <<"dec">>, <<"Discard">>}
CleanupChains == {<<>>, <<"boom">>}

VARIABLES
    defaultHandlers,  \* core.defaultHandlers
    deferred,         \* core.deferred: the defer stack, last element on top
    err,              \* *core.err: the output slot
    inPanic,          \* core.inPanic
    frames,           \* the Go call stack, top first
    panicking,        \* the payload of the panic in flight, or NoPanic
    outcome,          \* "running", "returned", "panicked" or "exited"
    escaped,          \* the payload that propagated to the caller
    nreg,             \* number of Defer calls made
    nmust,            \* number of Must calls made by the body
    musts,            \* history: the errors given to the Must calls of the body
    dets,             \* history: the detections (non-nil Must, failed cleanup)
    applied,          \* history: the handler applications
    invoked,          \* history: the cleanup actions invoked
    writes,           \* history: the writes to the output slot
    faults            \* history: the external faults raised (panic payloads)

vars == <<defaultHandlers, deferred, err, inPanic, frames, panicking, outcome,
          escaped, nreg, nmust, musts, dets, applied, invoked, writes,
          faults>>

hist == <<dets, applied, invoked, writes, faults>>

(***************************************************************************)
(* Helpers                                                                 *)
(***************************************************************************)
Fr(k, e, chain, r, from, id) ==
    [k |-> k, err |-> e, chain |-> chain, r |-> r, from |-> from, id |-> id]

Top == frames[1]
Running == outcome = "running" /\ panicking = NoPanic /\ Len(frames) > 0
At(k) == Running /\ Top.k = k

Tag(hs, src) == [i \in 1..Len(hs) |-> [h |-> hs[i], src |-> src]]

\* deferData{f, x}: f = 0 is a nil function (a handler marker, x the Handler);
\* reg is history: the handlers given to the Defer call of an action
Action(id, hs) == [f |-> id, x |-> "arg", reg |-> hs]
Marker(h) == [f |-> 0, x |-> h, reg |-> <<>>]

Reverse(s) == [i \in 1..Len(s) |-> s[Len(s) + 1 - i]]

\* the cleanup actions on a defer stack (its entries that are no markers)
Pending(stack) == Cardinality({i \in 1..Len(stack) : stack[i].f # 0})

(***************************************************************************)
(* Handlers (handler.go, handler_test.go)                                  *)
(***************************************************************************)
\* The value a handler returns: identity, inc, dec of handler_test.go and
\* Discard of handler.go.  Fatal and boom do not return.
Returns(h) == h \in {"identity", "inc", "dec", "Discard"}

\* a Discard that hands the error back
HandlerResultKeep(h, e) ==
    CASE h = "inc" -> intErr(e.v + 1)
      [] h = "dec" -> intErr(e.v - 1)
      [] OTHER -> e

HandlerResult(h, e) ==
    CASE h = "identity" -> e
      [] h = "inc" -> intErr(e.v + 1)
      [] h = "dec" -> intErr(e.v - 1)
      [] h = "Discard" -> Nil
      [] OTHER -> e

\* per-call handlers followed by the default handlers
EffectiveChainCompose(handlers, defaults) ==
    Tag(handlers, "call") \o Tag(defaults, "default")

\* processError: the per-call handlers, and the default handlers only when
\* no per-call handler was given.
EffectiveChain(handlers, defaults) ==
    Tag(handlers, "call") \o
    (IF Len(handlers) = 0 THEN Tag(defaults, "default") ELSE <<>>)

\* processDeferError: the handler markers on top of the stack (the action
\* itself was popped by doDefers), read from the top down.
\* every marker of the stack, whatever lies between
MarkersAll(stack) ==
    [i \in 1..Len(SelectSeq(Reverse(stack), LAMBDA d : d.f = 0)) |->
        SelectSeq(Reverse(stack), LAMBDA d : d.f = 0)[i].x]

RECURSIVE Markers(_)
Markers(stack) ==
    IF Len(stack) > 0 /\ stack[Len(stack)].f = 0
    THEN <<stack[Len(stack)].x>> \o Markers(SubSeq(stack, 1, Len(stack) - 1))
    ELSE <<>>

\* the markers followed by the default handlers
DeferChainBoth(stack, defaults) ==
    Tag(Markers(stack), "defer") \o Tag(defaults, "default")

DeferChain(stack, defaults) ==
    IF Markers(stack) # <<>>
    THEN Tag(Markers(stack), "defer")
    ELSE Tag(defaults, "default")

\* a detection that overwrites the slot
RecordAlways(slot, e) == e

\* The slot after a detection whose chain was not absorbed: written only
\* when it is nil.
Record(slot, e) == IF slot = Nil THEN e ELSE slot

\* Handle: the error made of an intercepted payload.
\* a conversion without the wrapping of non-error payloads
AsErrorNoWrap(r) == IF r.k = "error" THEN intErr(r.v) ELSE Nil

AsError(r) == IF r.k = "error" THEN intErr(r.v) ELSE Paniced(r.v)

\* an interception that respects an error already recorded
InterceptedIfNil(slot, r) == IF slot = Nil THEN AsError(r) ELSE slot

\* an interception that does not write the slot
InterceptedKeep(slot, r) == slot

\* Handle, default case: the slot after  *e.err = err2
Intercepted(slot, r) == AsError(r)

\* a handle that drops the handler's result
handleNoStore(fr) == [fr EXCEPT !.chain = Tail(fr.chain)]

\* errorHandler.handle with a non-nil result: *h.err = newErr, and the loop
\* goes on to the next handler
handle(fr) ==
    [fr EXCEPT !.err = HandlerResult(fr.chain[1].h, fr.err),
               !.chain = Tail(fr.chain)]

(***************************************************************************)
(* History                                                                 *)
(***************************************************************************)
Det(by, e, hs, chain, cid, reg) ==
    [by |-> by, e |-> e, hs |-> hs, chain |-> chain, old |-> err,
     cid |-> cid, res |-> "pending", out |-> e, reg |-> reg]

App(h, e, out, ret) ==
    [det |-> Top.id, h |-> h.h, src |-> h.src, in |-> e, out |-> out,
     ret |-> ret, p |-> inPanic, serr |-> err, nw |-> Len(writes),
     ni |-> Len(invoked)]

Settle(res, out) ==
    [dets EXCEPT ![Top.id] = [@ EXCEPT !.res = res, !.out = out]]

(***************************************************************************)
(* Catch: the state after  e := errc.Catch(&err, h...); defer e.Handle()   *)
(***************************************************************************)
Init ==
    /\ defaultHandlers \in DefaultChains
    /\ deferred = <<>>
    /\ err = Nil
    /\ inPanic = FALSE
    /\ frames = <<Fr("body", Nil, <<>>, NoPanic, "", 0)>>
    /\ panicking = NoPanic
    /\ outcome = "running"
    /\ escaped = NoPanic
    /\ nreg = 0
    /\ nmust = 0
    /\ musts = <<>>
    /\ dets = <<>>
    /\ applied = <<>>
    /\ invoked = <<>>
    /\ writes = <<>>
    /\ faults = <<>>

(***************************************************************************)
(* The body of the user function                                           *)
(***************************************************************************)
\* a Must that hands nil to processError as well
MustNoCheck(e, h) ==
    /\ At("body")
    /\ nmust < MaxMust
    /\ nmust' = nmust + 1
    /\ musts' = Append(musts, e)
    /\ frames' = <<Fr("processError", e, EffectiveChain(h, defaultHandlers),
                      NoPanic, "body", Len(dets) + 1)>> \o frames
    /\ dets' = Append(dets, Det("Must", e, h,
                               EffectiveChain(h, defaultHandlers), 0, <<>>))
    /\ UNCHANGED <<defaultHandlers, deferred, err, inPanic, panicking, outcome,
                   escaped, nreg, applied, invoked, writes, faults>>

\* e.Must(e1, h...)
Must(e, h) ==
    /\ At("body")
    /\ nmust < MaxMust
    /\ nmust' = nmust + 1
    /\ musts' = Append(musts, e)
    /\ IF e = Nil
       THEN UNCHANGED <<frames, dets, faults>>
       ELSE /\ frames' = <<Fr("processError", e,
                              EffectiveChain(h, defaultHandlers), NoPanic,
                              "body", Len(dets) + 1)>> \o frames
            /\ dets' = Append(dets, Det("Must", e, h,
                              EffectiveChain(h, defaultHandlers), 0, <<>>))
    /\ UNCHANGED <<defaultHandlers, deferred, err, inPanic, panicking, outcome,
                   escaped, nreg, applied, invoked, writes, faults>>

\* e.Defer(f, h...): the handlers are pushed as markers, then the action.
Defer(h) ==
    /\ At("body")
    /\ nreg < MaxDefers
    /\ nreg' = nreg + 1
    /\ deferred' = deferred \o [i \in 1..Len(h) |-> Marker(Reverse(h)[i])]
                            \o <<Action(nreg + 1, h)>>
    /\ UNCHANGED <<defaultHandlers, err, inPanic, frames, panicking, outcome,
                   escaped, nmust, musts, hist>>

\* the body panics (user code, or a fault of the runtime)
BodyPanic(p) ==
    /\ At("body")
    /\ panicking' = p
    /\ faults' = Append(faults, p)
    /\ UNCHANGED <<defaultHandlers, deferred, err, inPanic, frames, outcome,
                   escaped, nreg, nmust, musts, dets, applied, invoked, writes>>

\* the body returns: the deferred e.Handle() runs, recover() yields nil
BodyReturn ==
    /\ At("body")
    /\ frames' = <<Fr("Handle", Nil, <<>>, NoPanic, "entry", 0)>>
    /\ UNCHANGED <<defaultHandlers, deferred, err, inPanic, panicking, outcome,
                   escaped, nreg, nmust, musts, hist>>

(***************************************************************************)
(* errorHandler.handle, inside processError and processDeferError          *)
(***************************************************************************)
InChain == /\ Running
           /\ Top.k \in {"processError", "processDeferError"}
           /\ Top.chain # <<>>

\* the handler returns a non-nil error: it replaces the error in progress
handleReplace ==
    /\ InChain
    /\ Returns(Top.chain[1].h)
    /\ HandlerResult(Top.chain[1].h, Top.err) # Nil
    /\ frames' = <<handle(Top)>> \o Tail(frames)
    /\ applied' = Append(applied, App(Top.chain[1], Top.err,
                            HandlerResult(Top.chain[1].h, Top.err), "ret"))
    /\ UNCHANGED <<defaultHandlers, deferred, err, inPanic, panicking, outcome,
                   escaped, nreg, nmust, musts, dets, invoked, writes, faults>>

\* the handler returns nil: done, processError / processDeferError returns
handleAbsorb ==
    /\ InChain
    /\ Returns(Top.chain[1].h)
    /\ HandlerResult(Top.chain[1].h, Top.err) = Nil
    /\ frames' = Tail(frames)
    /\ applied' = Append(applied, App(Top.chain[1], Top.err, Nil, "ret"))
    /\ dets' = Settle("absorbed", Nil)
    /\ UNCHANGED <<defaultHandlers, deferred, err, inPanic, panicking, outcome,
                   escaped, nreg, nmust, musts, invoked, writes, faults>>

\* a Fatal that returns the error it was given
handleFatalReturns ==
    /\ InChain
    /\ Top.chain[1].h = "Fatal"
    /\ frames' = <<[Top EXCEPT !.chain = Tail(Top.chain)]>> \o Tail(frames)
    /\ applied' = Append(applied, App(Top.chain[1], Top.err, Top.err, "exit"))
    /\ UNCHANGED <<defaultHandlers, deferred, err, inPanic, panicking, outcome,
                   escaped, nreg, nmust, musts, dets, invoked, writes, faults>>

\* Fatal: os.Exit(1)
handleFatal ==
    /\ InChain
    /\ Top.chain[1].h = "Fatal"
    /\ outcome' = "exited"
    /\ frames' = <<>>
    /\ applied' = Append(applied, App(Top.chain[1], Top.err, Nil, "exit"))
    /\ dets' = Settle("exited", Nil)
    /\ UNCHANGED <<defaultHandlers, deferred, err, inPanic, panicking,
                   escaped, nreg, nmust, musts, invoked, writes, faults>>

\* a handler that panics
handlePanics ==
    /\ InChain
    /\ Top.chain[1].h = "boom"
    /\ panicking' = BoomPayload
    /\ faults' = Append(faults, BoomPayload)
    /\ applied' = Append(applied, App(Top.chain[1], Top.err, Nil, "panic"))
    /\ dets' = Settle("panicked", Nil)
    /\ UNCHANGED <<defaultHandlers, deferred, err, inPanic, frames, outcome,
                   escaped, nreg, nmust, musts, invoked, writes>>

(***************************************************************************)
(* processError after its chain (lines 171-174) and bail                   *)
(***************************************************************************)
\* a bail that panics without flushing
processErrorRecordNoFlush ==
    /\ Running
    /\ Top.k = "processError"
    /\ Top.chain = <<>>
    /\ err' = Record(err, Top.err)
    /\ writes' = IF err' # err
                 THEN Append(writes, [by |-> "processError", old |-> err,
                                      val |-> err', r |-> NoPanic])
                 ELSE writes
    /\ dets' = Settle("survived", Top.err)
    /\ frames' = Tail(frames)
    /\ panicking' = errOurPanic
    /\ UNCHANGED <<defaultHandlers, deferred, inPanic, outcome,
                   escaped, nreg, nmust, musts, applied, invoked, faults>>

processErrorRecord ==
    /\ Running
    /\ Top.k = "processError"
    /\ Top.chain = <<>>
    /\ err' = Record(err, Top.err)
    /\ writes' = IF err' # err
                 THEN Append(writes, [by |-> "processError", old |-> err,
                                      val |-> err', r |-> NoPanic])
                 ELSE writes
    /\ dets' = Settle("survived", Top.err)
    \* bail: doDefers(e, 0), then panic(errOurPanic)
    /\ frames' = <<Fr("doDefers", Nil, <<>>, NoPanic, "bail", 0)>>
                 \o Tail(frames)
    /\ UNCHANGED <<defaultHandlers, deferred, inPanic, panicking, outcome,
                   escaped, nreg, nmust, musts, applied, invoked, faults>>

\* a processDeferError that stores the last error
processDeferErrorRecordLast ==
    /\ Running
    /\ Top.k = "processDeferError"
    /\ Top.chain = <<>>
    /\ err' = Top.err
    /\ writes' = IF err' # err
                 THEN Append(writes, [by |-> "processDeferError", old |-> err,
                                      val |-> err', r |-> NoPanic])
                 ELSE writes
    /\ dets' = Settle("survived", Top.err)
    /\ frames' = Tail(frames)
    /\ UNCHANGED <<defaultHandlers, deferred, inPanic, panicking, outcome,
                   escaped, nreg, nmust, musts, applied, invoked, faults>>

\* a processDeferError that bails like processError
processDeferErrorRecordBail ==
    /\ Running
    /\ Top.k = "processDeferError"
    /\ Top.chain = <<>>
    /\ err' = Record(err, Top.err)
    /\ writes' = IF err' # err
                 THEN Append(writes, [by |-> "processDeferError", old |-> err,
                                      val |-> err', r |-> NoPanic])
                 ELSE writes
    /\ dets' = Settle("survived", Top.err)
    /\ frames' = <<Fr("doDefers", Nil, <<>>, NoPanic, "bail", 0)>>
                 \o Tail(frames)
    /\ UNCHANGED <<defaultHandlers, deferred, inPanic, panicking, outcome,
                   escaped, nreg, nmust, musts, applied, invoked, faults>>

\* processDeferError after its chain (lines 152-154)
processDeferErrorRecord ==
    /\ Running
    /\ Top.k = "processDeferError"
    /\ Top.chain = <<>>
    /\ err' = Record(err, Top.err)
    /\ writes' = IF err' # err
                 THEN Append(writes, [by |-> "processDeferError", old |-> err,
                                      val |-> err', r |-> NoPanic])
                 ELSE writes
    /\ dets' = Settle("survived", Top.err)
    /\ frames' = Tail(frames)
    /\ UNCHANGED <<defaultHandlers, deferred, inPanic, panicking, outcome,
                   escaped, nreg, nmust, musts, applied, invoked, faults>>

(***************************************************************************)
(* doDefers(e, 0): one iteration of its loop per step                      *)
(***************************************************************************)
InLoop == At("doDefers") /\ Len(deferred) > 0

\* a loop that takes the oldest entry
TopEntryFirst == deferred[1]

\* a loop that leaves the entry on the stack
PoppedNothing == deferred

\* i := len(e.deferred) - 1; d := e.deferred[i]
TopEntry == deferred[Len(deferred)]
Popped == SubSeq(deferred, 1, Len(deferred) - 1)

\* the history entry of an invocation: what the cleanup sees through State,
\* the flush that invokes it (by) and what Handle had recovered when it
\* called finishDefer (trig; "Must" for the flush of bail)
Inv(what) ==
    [id |-> TopEntry.f, serr |-> err, p |-> inPanic, by |-> Top.from,
     what |-> what, nd |-> Len(dets), nf |-> Len(faults),
     nw |-> Len(writes),
     trig |-> IF Top.from = "finishDefer" THEN frames[3].r.k ELSE "Must"]

\* d.f == nil: a handler marker, skipped
doDefersMarker ==
    /\ InLoop
    /\ TopEntry.f = 0
    /\ deferred' = Popped
    /\ UNCHANGED <<defaultHandlers, err, inPanic, frames, panicking, outcome,
                   escaped, nreg, nmust, musts, hist>>

\* the cleanup action returns nil
cleanupOK ==
    /\ InLoop
    /\ TopEntry.f # 0
    /\ deferred' = Popped
    /\ invoked' = Append(invoked, Inv("ok"))
    /\ UNCHANGED <<defaultHandlers, err, inPanic, frames, panicking, outcome,
                   escaped, nreg, nmust, musts, dets, applied, writes, faults>>

\* a failure that skips the handlers once the slot is set
cleanupFailsSkip ==
    /\ InLoop
    /\ TopEntry.f # 0
    /\ deferred' = Popped
    /\ invoked' = Append(invoked, Inv("fails"))
    /\ frames' = <<Fr("processDeferError", CleanupErr(TopEntry.f),
                      IF err = Nil THEN DeferChain(Popped, defaultHandlers)
                      ELSE <<>>, NoPanic, "", Len(dets) + 1)>> \o frames
    /\ dets' = Append(dets, Det("Defer", CleanupErr(TopEntry.f),
                               Markers(Popped),
                               IF err = Nil
                               THEN DeferChain(Popped, defaultHandlers)
                               ELSE <<>>,
                               TopEntry.f, TopEntry.reg))
    /\ UNCHANGED <<defaultHandlers, err, inPanic, panicking, outcome,
                   escaped, nreg, nmust, musts, applied, writes, faults>>

\* the cleanup action returns a non-nil error: processDeferError(e, err)
cleanupFails ==
    /\ InLoop
    /\ TopEntry.f # 0
    /\ deferred' = Popped
    /\ invoked' = Append(invoked, Inv("fails"))
    /\ frames' = <<Fr("processDeferError", CleanupErr(TopEntry.f),
                      DeferChain(Popped, defaultHandlers), NoPanic, "",
                      Len(dets) + 1)>> \o frames
    /\ dets' = Append(dets, Det("Defer", CleanupErr(TopEntry.f),
                               Markers(Popped),
                               DeferChain(Popped, defaultHandlers),
                               TopEntry.f, TopEntry.reg))
    /\ UNCHANGED <<defaultHandlers, err, inPanic, panicking, outcome,
                   escaped, nreg, nmust, musts, applied, writes, faults>>

\* the cleanup action panics
cleanupPanics ==
    /\ InLoop
    /\ TopEntry.f # 0
    /\ deferred' = Popped
    /\ invoked' = Append(invoked, Inv("panics"))
    /\ panicking' = CleanupPayload(TopEntry.f)
    /\ faults' = Append(faults, CleanupPayload(TopEntry.f))
    /\ UNCHANGED <<defaultHandlers, err, inPanic, frames, outcome,
                   escaped, nreg, nmust, musts, dets, applied, writes>>

\* the cleanup action calls e.Must(e1, h...) with a non-nil error
cleanupMust(h) ==
    /\ InLoop
    /\ TopEntry.f # 0
    /\ deferred' = Popped
    /\ invoked' = Append(invoked, Inv("must"))
    /\ frames' = <<Fr("processError", CleanupMustErr(TopEntry.f),
                      EffectiveChain(h, defaultHandlers),
                      NoPanic, "cleanup", Len(dets) + 1),
                   Fr("cleanup", Nil, <<>>, NoPanic, "", TopEntry.f)>>
                 \o frames
    /\ dets' = Append(dets, Det("Must", CleanupMustErr(TopEntry.f), h,
                               EffectiveChain(h, defaultHandlers), TopEntry.f,
                               <<>>))
    /\ UNCHANGED <<defaultHandlers, err, inPanic, panicking, outcome,
                   escaped, nreg, nmust, musts, applied, writes, faults>>

\* the cleanup action whose Must was absorbed returns nil
cleanupReturn ==
    /\ At("cleanup")
    /\ frames' = Tail(frames)
    /\ UNCHANGED <<defaultHandlers, deferred, err, inPanic, panicking, outcome,
                   escaped, nreg, nmust, musts, hist>>

\* the loop of doDefers ends, called from bail: panic(errOurPanic)
bail ==
    /\ At("doDefers")
    /\ Len(deferred) = 0
    /\ Top.from = "bail"
    /\ panicking' = errOurPanic
    /\ frames' = Tail(frames)
    /\ UNCHANGED <<defaultHandlers, deferred, err, inPanic, outcome,
                   escaped, nreg, nmust, musts, hist>>

\* the loop of doDefers ends, called from finishDefer: finishDefer returns
\* and its deferred e.Handle() runs, recover() yields nil
finishDeferReturn ==
    /\ At("doDefers")
    /\ Len(deferred) = 0
    /\ Top.from = "finishDefer"
    /\ frames' = <<Fr("Handle", Nil, <<>>, NoPanic, "entry", 0)>>
                 \o SubSeq(frames, 3, Len(frames))
    /\ UNCHANGED <<defaultHandlers, deferred, err, inPanic, panicking, outcome,
                   escaped, nreg, nmust, musts, hist>>

(***************************************************************************)
(* Go's panic: unwind to the nearest frame with a deferred e.Handle()      *)
(* (finishDefer, or the user function); none left: the caller sees it.     *)
(***************************************************************************)
\* only the user function has a deferred e.Handle()
DeferringBodyOnly(i) == frames[i].k = "body"

Deferring(i) == frames[i].k \in {"finishDefer", "body"}

Unwind ==
    /\ outcome = "running"
    /\ panicking # NoPanic
    /\ \E i \in 1..Len(frames) :
          /\ Deferring(i)
          /\ \A j \in 1..(i - 1) : ~Deferring(j)
          /\ frames' = <<Fr("Handle", Nil, <<>>, panicking, "entry", 0)>>
                       \o SubSeq(frames, i + 1, Len(frames))
    /\ panicking' = NoPanic
    /\ UNCHANGED <<defaultHandlers, deferred, err, inPanic, outcome,
                   escaped, nreg, nmust, musts, hist>>

Escape ==
    /\ outcome = "running"
    /\ panicking # NoPanic
    /\ \A i \in 1..Len(frames) : ~Deferring(i)
    /\ outcome' = "panicked"
    /\ escaped' = panicking
    /\ panicking' = NoPanic
    /\ frames' = <<>>
    /\ UNCHANGED <<defaultHandlers, deferred, err, inPanic, nreg, nmust, musts, hist>>

(***************************************************************************)
(* Catcher.Handle and finishDefer                                          *)
(***************************************************************************)
\* finishDefer(e) called by the Handle on top: with entries left it defers
\* e.Handle() and runs doDefers(e, 0); otherwise it returns at once.
\* The frame of finishDefer keeps the number of cleanup actions pending at
\* its call (history).
\* a finishDefer that flushes only when no panic was recovered
finishDeferUnlessPanic ==
    IF Len(deferred) > 0 /\ Top.r = NoPanic
    THEN <<Fr("doDefers", Nil, <<>>, NoPanic, "finishDefer", 0),
           Fr("finishDefer", Nil, <<>>, NoPanic, "", Pending(deferred)),
           [Top EXCEPT !.from = "flushed"]>> \o Tail(frames)
    ELSE <<[Top EXCEPT !.from = "flushed"]>> \o Tail(frames)

finishDefer ==
    IF Len(deferred) > 0
    THEN <<Fr("doDefers", Nil, <<>>, NoPanic, "finishDefer", 0),
           Fr("finishDefer", Nil, <<>>, NoPanic, "", Pending(deferred)),
           [Top EXCEPT !.from = "flushed"]>> \o Tail(frames)
    ELSE <<[Top EXCEPT !.from = "flushed"]>> \o Tail(frames)

AtHandle == At("Handle") /\ Top.from = "entry"

\* case nil
HandleNil ==
    /\ AtHandle
    /\ Top.r = NoPanic
    /\ frames' = finishDefer
    /\ UNCHANGED <<defaultHandlers, deferred, err, inPanic, panicking, outcome,
                   escaped, nreg, nmust, musts, hist>>

\* a sentinel that counts as a panic
HandleOurPanicSets ==
    /\ AtHandle
    /\ Top.r = errOurPanic
    /\ inPanic' = TRUE
    /\ frames' = finishDefer
    /\ UNCHANGED <<defaultHandlers, deferred, err, panicking, outcome,
                   escaped, nreg, nmust, musts, hist>>

\* case errOurPanic
HandleOurPanic ==
    /\ AtHandle
    /\ Top.r = errOurPanic
    /\ frames' = finishDefer
    /\ UNCHANGED <<defaultHandlers, deferred, err, inPanic, panicking, outcome,
                   escaped, nreg, nmust, musts, hist>>

\* default: any other payload
HandleIntercept ==
    /\ AtHandle
    /\ Top.r \notin {NoPanic, errOurPanic}
    /\ inPanic' = TRUE
    /\ err' = Intercepted(err, Top.r)
    /\ writes' = Append(writes, [by |-> "Handle", old |-> err,
                                 val |-> err', r |-> Top.r])
    /\ frames' = finishDefer
    /\ UNCHANGED <<defaultHandlers, deferred, panicking, outcome,
                   escaped, nreg, nmust, musts, dets, applied, invoked, faults>>

\* finishDefer has returned, default case: panic(r)
HandleRepanic ==
    /\ At("Handle")
    /\ Top.from = "flushed"
    /\ Top.r \notin {NoPanic, errOurPanic}
    /\ panicking' = Top.r
    /\ frames' = Tail(frames)
    /\ UNCHANGED <<defaultHandlers, deferred, err, inPanic, outcome,
                   escaped, nreg, nmust, musts, hist>>

\* finishDefer has returned, cases nil and errOurPanic: Handle returns; the
\* outermost Handle returns to the caller of the user function
HandleReturn ==
    /\ At("Handle")
    /\ Top.from = "flushed"
    /\ Top.r \in {NoPanic, errOurPanic}
    /\ frames' = Tail(frames)
    /\ outcome' = IF Len(frames) = 1 THEN "returned" ELSE outcome
    /\ UNCHANGED <<defaultHandlers, deferred, err, inPanic, panicking,
                   escaped, nreg, nmust, musts, hist>>

(***************************************************************************)
(* The specification                                                       *)
(***************************************************************************)
Next ==
    \/ \E e \in MustErrs(nmust + 1), h \in CallChains : Must(e, h)
    \/ \E h \in DeferChains : Defer(h)
    \/ \E p \in Payloads : BodyPanic(p)
    \/ BodyReturn
    \/ handleReplace
    \/ handleAbsorb
    \/ handleFatal
    \/ handlePanics
    \/ processErrorRecord
    \/ processDeferErrorRecord
    \/ doDefersMarker
    \/ cleanupOK
    \/ cleanupFails
    \/ cleanupPanics
    \/ \E h \in CleanupChains : cleanupMust(h)
    \/ cleanupReturn
    \/ bail
    \/ finishDeferReturn
    \/ Unwind
    \/ Escape
    \/ HandleNil
    \/ HandleOurPanic
    \/ HandleIntercept
    \/ HandleRepanic
    \/ HandleReturn

Spec == Init /\ [][Next]_vars

\* One goroutine runs the funnel: as long as a step is possible the program
\* takes one (user code is assumed to terminate: each cleanup and handler
\* is one step).
FairSpec == Spec /\ WF_vars(Next)

TypeOK ==
    /\ outcome \in {"running", "returned", "panicked", "exited"}
    /\ inPanic \in BOOLEAN
    /\ nreg \in 0..MaxDefers
    /\ nmust \in 0..MaxMust

(***************************************************************************)
(* Properties                                                              *)
(***************************************************************************)
Done == outcome \in {"returned", "panicked"}
External(r) == r \notin {NoPanic, errOurPanic}
Intercepting == At("Handle") /\ Top.from = "entry" /\ External(Top.r)

\* C1: first error wins.  Once the slot holds a non-nil error, no step of
\* the funnel changes it, and none resets it to nil, except Handle
\* intercepting an external fault (a panic other than errOurPanic).
C1_FirstErrorWins ==
    [][err # Nil => (err' = err \/ (Intercepting /\ err' # Nil))]_vars

\* a Must that survived its chain and a cleanup failure that was absorbed,
\* both detected while the slot already held the first error, which is kept
C1_Witness ==
    /\ ~inPanic
    /\ \E i, j \in 1..Len(dets) :
          /\ dets[i].by = "Must" /\ dets[i].old # Nil
          /\ dets[i].res = "survived" /\ dets[i].out # dets[i].old
          /\ dets[j].by = "Defer" /\ dets[j].old # Nil
          /\ dets[j].res = "absorbed"
          /\ err = dets[i].old

\* C2: cleanup actions are invoked in strict reverse registration order
\* (ids are given in registration order), whatever triggered the flush and
\* whatever the cleanups invoked before did.
C2_ReverseOrder ==
    \A i, j \in 1..Len(invoked) : i < j => invoked[i].id > invoked[j].id

\* two cleanups invoked by the flush of a Must, the first of which panicked
C2_Witness ==
    /\ Len(invoked) = 2
    /\ invoked[1].what = "panics"
    /\ invoked[1].by = "bail"
    /\ invoked[2].p

\* the payload of the first external fault intercepted by Handle
FirstFault ==
    writes[CHOOSE i \in 1..Len(writes) :
              /\ writes[i].by = "Handle"
              /\ \A j \in 1..(i - 1) : writes[j].by # "Handle"].r

\* C3: Handle never swallows an external fault.  When Handle has
\* intercepted a panic other than errOurPanic, the run ends with every
\* pending cleanup invoked, Handle does not return normally, and the caller
\* sees the panic re-raised with the original payload.
C3_OriginalPayloadReraised ==
    (inPanic /\ Done) =>
        /\ outcome = "panicked"
        /\ deferred = <<>>
        /\ escaped = FirstFault

\* C4: on intercepting an external fault Handle sets inPanic and overwrites
\* the slot, whatever it held, before any remaining cleanup runs: with the
\* payload itself when it is an error, else with an error wrapping it.
C4_InterceptOverwrites ==
    [][Intercepting =>
          /\ inPanic'
          /\ err' = [k |-> IF Top.r.k = "error" THEN "intErr" ELSE "paniced",
                     v |-> Top.r.v]
          /\ invoked' = invoked
          /\ deferred' = deferred]_vars

\* an interception that replaced an error recorded earlier by the wrapped
\* payload, with a cleanup still to run
C4_Witness ==
    /\ inPanic
    /\ \E i \in 1..Len(writes) :
          /\ writes[i].by = "Handle"
          /\ writes[i].r.k = "value"
          /\ writes[i].old # Nil
          /\ writes[i].old # writes[i].val
    /\ \E i \in 1..Len(invoked) : invoked[i].p

\* C5 as stated: at most one value is ever written to the output slot.
C5_AtMostOneWrite == Len(writes) <= 1

\* C5 as amended: at most one value is written to the slot by detections
\* (Must and cleanup failures), into a nil slot and before any other write;
\* every later write is the override of Handle intercepting an external
\* fault.
C5_OneDetectionWrite ==
    /\ Cardinality({i \in 1..Len(writes) : writes[i].by # "Handle"}) <= 1
    /\ \A i \in 1..Len(writes) :
          writes[i].by # "Handle" => (i = 1 /\ writes[i].old = Nil)

\* an error recorded by Must, then overridden by an intercepted fault
C5_Witness ==
    /\ Done
    /\ Len(writes) >= 2
    /\ writes[1].by = "processError"
    /\ writes[2].by = "Handle"

\* C6: once inPanic is true the slot is non-nil, up to and including the
\* completion of Handle.
C6_PanicKeepsError == inPanic => err # Nil

\* a fault-time flush in which Discard absorbed a cleanup failure, completed
C6_Witness ==
    /\ inPanic
    /\ outcome = "panicked"
    /\ \E i \in 1..Len(applied) :
          /\ applied[i].p
          /\ applied[i].h = "Discard"
          /\ dets[applied[i].det].by = "Defer"

\* C7: a cleanup invoked after a Must recorded an error (its chain was not
\* absorbed), or after an external fault was raised, sees a non-nil error
\* through State.Err().
C7_CleanupSeesError ==
    \A i \in 1..Len(invoked) :
        (\/ invoked[i].nf > 0
         \/ \E d \in 1..invoked[i].nd :
               dets[d].by = "Must" /\ dets[d].res = "survived")
        => invoked[i].serr # Nil

\* a cleanup invoked by the flush of a Must, and one invoked after a panic
C7_Witness ==
    \E i, j \in 1..Len(invoked) :
        /\ invoked[i].nf = 0 /\ invoked[i].by = "bail"
        /\ invoked[i].serr # Nil
        /\ invoked[j].nf > 0 /\ invoked[j].p
        /\ invoked[j].serr.k = "paniced"

\* the position of application i among those of its detection
Pos(i) == Cardinality({j \in 1..i : applied[j].det = applied[i].det})

\* the step is a handler returning nil
Absorbing ==
    /\ Len(applied') = Len(applied) + 1
    /\ applied'[Len(applied')].ret = "ret"
    /\ applied'[Len(applied')].out = Nil

\* C8: absorption.  A handler returning nil ends its chain: no later
\* handler of that detection is applied, and the slot, inPanic and the
\* cleanup stack are unchanged, no cleanup is run, no panic is raised and
\* control returns to the caller.  Discard returns nil for every error.
C8_Absorption ==
    /\ [](\A i \in 1..Len(applied) :
             /\ applied[i].h = "Discard" =>
                   (applied[i].ret = "ret" /\ applied[i].out = Nil)
             /\ \A j \in 1..Len(applied) :
                   (i < j /\ applied[i].det = applied[j].det) =>
                       (applied[i].ret = "ret" /\ applied[i].out # Nil))
    /\ [][Absorbing =>
             /\ UNCHANGED <<err, inPanic, deferred, invoked, writes,
                            panicking, outcome>>
             /\ frames' = Tail(frames)]_vars

\* a Must of the body absorbed by Discard at the head of a chain of two,
\* with a cleanup pending, and the body going on
C8_Witness ==
    /\ At("body")
    /\ Len(deferred) > 0
    /\ err = Nil
    /\ \E d \in 1..Len(dets) :
          /\ dets[d].by = "Must"
          /\ dets[d].res = "absorbed"
          /\ Len(dets[d].chain) = 2
          /\ Cardinality({i \in 1..Len(applied) : applied[i].det = d}) = 1

Names(chain) == [i \in 1..Len(chain) |-> chain[i].h]

\* hn(...h1(e)...)
RECURSIVE Compose(_, _)
Compose(hs, e) ==
    IF hs = <<>> THEN e
    ELSE Compose(Tail(hs),
                 CASE hs[1] = "inc" -> [k |-> "intErr", v |-> e.v + 1]
                   [] hs[1] = "dec" -> [k |-> "intErr", v |-> e.v - 1]
                   [] hs[1] = "Discard" -> Nil
                   [] OTHER -> e)

\* a non-nil error given to Must with the slot nil, and an effective chain
\* of handlers that all return non-nil
Composing(d) ==
    /\ dets[d].by = "Must"
    /\ dets[d].old = Nil
    /\ dets[d].res = "survived"
    /\ \A k \in 1..Len(dets[d].chain) :
          /\ dets[d].chain[k].h \in {"identity", "inc", "dec", "Discard"}
          /\ Compose(SubSeq(Names(dets[d].chain), 1, k), dets[d].e) # Nil

\* C9 as stated: the slot after Handle equals hn(...h1(e)...).
C9_ComposedAfterHandle ==
    Done => \A d \in 1..Len(dets) :
               Composing(d) =>
                   err = Compose(Names(dets[d].chain), dets[d].e)

\* C9 as amended: each handler receives the previous handler's result, the
\* value this Must records in the slot is hn(...h1(e)...) (e for an empty
\* chain), and the slot still holds it after Handle unless Handle
\* intercepted an external fault raised during the flush; the slot then
\* holds the error of the last fault intercepted.
C9_Composed ==
    \A d \in 1..Len(dets) :
        Composing(d) =>
            /\ \A i \in 1..Len(applied) :
                  applied[i].det = d =>
                      /\ applied[i].h = dets[d].chain[Pos(i)].h
                      /\ applied[i].in =
                            Compose(SubSeq(Names(dets[d].chain), 1, Pos(i) - 1),
                                    dets[d].e)
            /\ \E w \in 1..Len(writes) :
                  /\ writes[w].by = "processError"
                  /\ writes[w].val = Compose(Names(dets[d].chain), dets[d].e)
            /\ ~inPanic => err = Compose(Names(dets[d].chain), dets[d].e)
            /\ inPanic => /\ writes[Len(writes)].by = "Handle"
                          /\ err = writes[Len(writes)].val

\* Must(intErr(n)) with two handlers, recorded and kept through a flush in
\* which no fault occurred
C9_Witness ==
    /\ outcome = "returned"
    /\ Len(invoked) > 0
    /\ \E d \in 1..Len(dets) :
          /\ Composing(d)
          /\ Len(dets[d].chain) = 2
          /\ err = [k |-> "intErr", v |-> dets[d].e.v + 2]

\* C10: per-call handlers replace the default chain.  The handlers applied
\* to an error given to Must are those of its per-call list, in order, and
\* no default handler, when the list is not empty; they are the default
\* handlers exactly when the list is empty.
C10_PerCallReplaces ==
    /\ \A i \in 1..Len(applied) :
          dets[applied[i].det].by = "Must" =>
              IF Len(dets[applied[i].det].hs) > 0
              THEN /\ applied[i].src = "call"
                   /\ Pos(i) <= Len(dets[applied[i].det].hs)
                   /\ applied[i].h = dets[applied[i].det].hs[Pos(i)]
              ELSE /\ applied[i].src = "default"
                   /\ Pos(i) <= Len(defaultHandlers)
                   /\ applied[i].h = defaultHandlers[Pos(i)]
    /\ \A d \in 1..Len(dets) :
          (dets[d].by = "Must" /\ dets[d].res = "survived") =>
              Cardinality({i \in 1..Len(applied) : applied[i].det = d})
                 = IF Len(dets[d].hs) > 0 THEN Len(dets[d].hs)
                   ELSE Len(defaultHandlers)

\* a Must with two per-call handlers on a funnel with a default handler,
\* not absorbed: two applications, and one with no per-call handler
C10_Witness ==
    /\ defaultHandlers = <<"inc">>
    /\ \E d, c \in 1..Len(dets) :
          /\ dets[d].by = "Must" /\ dets[d].res = "survived"
          /\ Len(dets[d].hs) = 2
          /\ dets[d].out.v = dets[d].e.v + 2
          /\ dets[c].by = "Must" /\ dets[c].res = "survived"
          /\ Len(dets[c].hs) = 0
          /\ dets[c].out.v = dets[c].e.v + 1

\* the chains applied so far are those C11 requires
ScopedSoFar ==
    /\ \A d \in 1..Len(dets) :
          dets[d].by = "Defer" =>
              /\ dets[d].hs = dets[d].reg
              /\ Names(dets[d].chain) =
                    IF dets[d].reg # <<>> THEN dets[d].reg ELSE defaultHandlers
              /\ \E k \in 1..Len(invoked) :
                    invoked[k].id = dets[d].cid /\ invoked[k].what = "fails"
    /\ \A i \in 1..Len(applied) :
          /\ applied[i].src = "defer" =>
                /\ dets[applied[i].det].by = "Defer"
                /\ Pos(i) <= Len(dets[applied[i].det].reg)
                /\ applied[i].h = dets[applied[i].det].reg[Pos(i)]
          /\ dets[applied[i].det].by = "Defer" =>
                IF dets[applied[i].det].reg # <<>>
                THEN applied[i].src = "defer"
                ELSE /\ applied[i].src = "default"
                     /\ Pos(i) <= Len(defaultHandlers)
                     /\ applied[i].h = defaultHandlers[Pos(i)]

\* the step is a cleanup action returning nil
CleanupSucceeds ==
    /\ Len(invoked') = Len(invoked) + 1
    /\ invoked'[Len(invoked')].what = "ok"

\* C11: per-cleanup handlers are scoped to their own cleanup.  The chain
\* applied to the error returned by a cleanup action is the handler list
\* given to its own Defer call, in order, and no default handler; it is the
\* default chain exactly when that list is empty.  A handler registered with
\* a cleanup is applied only to a failure of that cleanup, and a cleanup
\* that succeeds has no handler applied: the loop of doDefers goes on.
C11_ScopedHandlers ==
    /\ []ScopedSoFar
    /\ [][CleanupSucceeds =>
             UNCHANGED <<applied, dets, frames, err, writes>>]_vars

\* two cleanups fail in one flush: the one registered with dec has dec
\* applied and not the default inc, the one registered without handlers
\* has inc applied; the cleanup with dec sits below the other on the stack
C11_Witness ==
    /\ defaultHandlers = <<"inc">>
    /\ \E c, d \in 1..Len(dets) :
          /\ dets[c].by = "Defer" /\ dets[c].reg = <<>>
          /\ dets[c].res = "survived" /\ dets[c].out.v = dets[c].e.v + 1
          /\ dets[d].by = "Defer" /\ dets[d].reg = <<"dec">>
          /\ dets[d].res = "survived" /\ dets[d].out.v = dets[d].e.v - 1
          /\ dets[d].cid < dets[c].cid

\* C12: the private sentinel never escapes the funnel.  errOurPanic is never
\* the payload that reaches the caller, a sentinel in flight always has a
\* deferred Handle below it, and a run in which no external fault was raised
\* (by the body, a cleanup or a handler) ends with Handle returning normally.
C12_SentinelContained ==
    /\ escaped # errOurPanic
    /\ (outcome = "running" /\ panicking = errOurPanic) =>
          \E i \in 1..Len(frames) : frames[i].k \in {"finishDefer", "body"}
    /\ (Done /\ faults = <<>>) => outcome = "returned"

\* Handle has returned, no fault was raised, and the sentinel was raised
\* twice: by a Must of the body and by a Must called by a cleanup action
C12_Witness ==
    /\ outcome = "returned"
    /\ faults = <<>>
    /\ \E c, d \in 1..Len(dets) :
          /\ dets[c].by = "Must" /\ dets[c].cid = 0
          /\ dets[c].res = "survived"
          /\ dets[d].by = "Must" /\ dets[d].cid # 0
          /\ dets[d].res = "survived"

\* the step is a Must of the body called with a nil error
MustNil ==
    /\ Len(musts') = Len(musts) + 1
    /\ musts'[Len(musts')] = Nil

\* C13: Must with a nil error is a no-op.  The step applies no handler,
\* detects nothing, invokes no cleanup, raises no panic, and leaves the
\* slot, inPanic and the cleanup stack unchanged; the body goes on.
C13_MustNilNoOp ==
    [][MustNil =>
          /\ UNCHANGED <<err, inPanic, deferred, panicking, outcome, frames,
                         dets, applied, invoked, writes, faults>>
          /\ At("body")']_vars

\* the body after Must(nil, inc, inc) on a funnel with a default handler
\* and a cleanup registered with a handler: nothing applied, nothing run
C13_Witness ==
    /\ At("body")
    /\ musts = <<Nil>>
    /\ defaultHandlers # <<>>
    /\ Len(deferred) = 2
    /\ applied = <<>>
    /\ invoked = <<>>
    /\ err = Nil

\* C14: Fatal terminates the process where it is applied.  The application
\* of Fatal is the last handler application of the run and the process has
\* exited; at the exit the slot, the writes and the cleanups invoked are
\* those Fatal saw, the detection is not settled otherwise, no call is left
\* on the stack and no step (of Handle or of anything else) is possible.
C14_FatalTerminates ==
    /\ \A i \in 1..Len(applied) :
          applied[i].h = "Fatal" =>
              /\ i = Len(applied)
              /\ applied[i].ret = "exit"
              /\ outcome = "exited"
    /\ outcome = "exited" =>
          /\ applied # <<>>
          /\ applied[Len(applied)].h = "Fatal"
          /\ err = applied[Len(applied)].serr
          /\ Len(writes) = applied[Len(applied)].nw
          /\ Len(invoked) = applied[Len(applied)].ni
          /\ dets[applied[Len(applied)].det].res = "exited"
          /\ frames = <<>>
          /\ panicking = NoPanic
          /\ ~ENABLED Next

\* the process exited on a Must of the body with two cleanups registered,
\* one with a handler: nothing was invoked, the stack and the slot are as
\* they were
C14_Witness ==
    /\ outcome = "exited"
    /\ nreg = 2
    /\ Len(deferred) = 3
    /\ invoked = <<>>
    /\ err = Nil
    /\ dets[Len(dets)].by = "Must"

\* a Must of the body whose error survived its chain
BodyAborted ==
    \E d \in 1..Len(dets) :
        dets[d].by = "Must" /\ dets[d].cid = 0 /\ dets[d].res = "survived"

\* the Handle deferred by the user function starts
OuterHandle == AtHandle /\ Len(frames) = 1

\* what C15 says of every Must that survived its chain, whatever happens
\* next: the error is recorded if the slot was nil, the code that called
\* Must does not go on, and the sentinel is raised with the stack empty
MustAborts ==
    /\ \A d \in 1..Len(dets) :
          (dets[d].by = "Must" /\ dets[d].res = "survived") =>
              /\ err # Nil
              /\ dets[d].old = Nil =>
                    /\ writes # <<>>
                    /\ writes[1].by = "processError"
                    /\ writes[1].val = dets[d].out
              /\ ~(Running /\ Top.k \in {"body", "cleanup"}
                            /\ Top.id = dets[d].cid)
    /\ (outcome = "running" /\ panicking = errOurPanic) => deferred = <<>>
    /\ (AtHandle /\ Top.r = errOurPanic) => deferred = <<>>

\* C15 as stated: a Must whose error survives its chain records it, every
\* pending cleanup is flushed before the abort is raised, the body does not
\* go on, and Handle then finds the cleanup stack empty.
C15_HandleFindsStackEmpty ==
    /\ MustAborts
    /\ (BodyAborted /\ OuterHandle) => deferred = <<>>

\* C15 as amended: as stated, except when a cleanup action or a handler of
\* that flush raises an external fault: the flush stops there, no abort is
\* raised, and Handle, receiving that fault, finds the cleanups below the
\* faulting one still on the stack.
C15_AbortAfterFlush ==
    /\ MustAborts
    /\ (BodyAborted /\ OuterHandle) =>
          /\ Top.r # NoPanic
          /\ Top.r = errOurPanic => faults = <<>>
          /\ deferred # <<>> =>
                /\ External(Top.r)
                /\ invoked # <<>>
                /\ \A i \in 1..Len(invoked) : invoked[i].by = "bail"
                /\ \/ invoked[Len(invoked)].what = "panics"
                   \/ /\ invoked[Len(invoked)].what = "fails"
                      /\ dets[Len(dets)].res = "panicked"
                   \/ /\ invoked[Len(invoked)].what = "must"
                      /\ dets[Len(dets)].res = "panicked"

\* Handle receives the sentinel of a Must of the body that recorded its
\* error: both cleanups were invoked by the flush of bail, one failed, and
\* the stack is empty
C15_Witness ==
    /\ OuterHandle
    /\ Top.r = errOurPanic
    /\ BodyAborted
    /\ deferred = <<>>
    /\ Len(invoked) = 2
    /\ invoked[1].by = "bail" /\ invoked[2].by = "bail"
    /\ invoked[1].what = "fails"
    /\ writes[1].by = "processError"

\* a cleanup action has panicked while Handle was flushing for an external
\* fault intercepted before
FaultDuringFaultFlush ==
    \E i \in 1..Len(invoked) :
        /\ invoked[i].what = "panics"
        /\ invoked[i].by = "finishDefer"
        /\ invoked[i].p

\* C16: when a cleanup action panics while Handle is flushing for an
\* external fault intercepted earlier, the payload that reaches the caller
\* once Handle completes is that of the older fault, and the newer one is
\* dropped.
C16_OlderFaultWins ==
    (FaultDuringFaultFlush /\ Done) =>
        /\ outcome = "panicked"
        /\ escaped = faults[1]
        /\ escaped # faults[Len(faults)]

\* the step ends the chain of a cleanup failure that survived it
DeferErrorSurvives ==
    /\ Running
    /\ Top.k = "processDeferError"
    /\ Top.chain = <<>>

\* C17: a failing cleanup never aborts the flush.  When the error a cleanup
\* returned survives its chain, it is written to the slot only if the slot
\* is nil; no panic is raised, no flush is started, no entry leaves the
\* stack, and control returns to the loop of the doDefers that invoked the
\* cleanup.  Every cleanup below it is then invoked by the time the run
\* completes, by that same flush when nothing else interrupts it.
C17_FailingCleanupGoesOn ==
    /\ [][DeferErrorSurvives =>
             /\ err' = IF err = Nil THEN Top.err ELSE err
             /\ panicking' = NoPanic
             /\ outcome' = outcome
             /\ deferred' = deferred
             /\ invoked' = invoked
             /\ frames' = Tail(frames)
             /\ frames'[1].k = "doDefers"
             /\ frames'[1].from = invoked[Len(invoked)].by]_vars
    /\ [](\A d \in 1..Len(dets) :
             (dets[d].by = "Defer" /\ dets[d].res = "survived" /\ Done) =>
                 \A id \in 1..(dets[d].cid - 1) :
                     \E k \in 1..Len(invoked) : invoked[k].id = id)
    /\ [](\A k \in 1..Len(invoked) :
             (/\ k > 1
              /\ invoked[k - 1].what = "fails"
              /\ invoked[k].nf = invoked[k - 1].nf) =>
                 invoked[k].by = invoked[k - 1].by)

\* a flush started by bail in which the first cleanup failed with the slot
\* already set and its error survived: the slot is unchanged, no fault was
\* raised, and the second cleanup was invoked by the same flush
C17_Witness ==
    /\ Len(invoked) = 2
    /\ invoked[1].what = "fails"
    /\ invoked[1].by = "bail"
    /\ invoked[2].by = "bail"
    /\ faults = <<>>
    /\ \E d \in 1..Len(dets) :
          /\ dets[d].by = "Defer"
          /\ dets[d].cid = invoked[1].id
          /\ dets[d].res = "survived"
          /\ dets[d].old # Nil
          /\ err = dets[d].old
          /\ err # dets[d].out

\* C18: every cleanup action registered is invoked exactly once by the time
\* Handle completes, whether it returns or re-raises; none is invoked twice
\* at any time, and the stack is then empty (Fatal excluded: the process
\* has exited, Handle does not complete).
C18_EachCleanupOnce ==
    /\ [](/\ \A i, j \in 1..Len(invoked) :
                invoked[i].id = invoked[j].id => i = j
          /\ \A i \in 1..Len(invoked) : invoked[i].id \in 1..nreg
          /\ Done =>
                /\ \A id \in 1..nreg :
                      \E i \in 1..Len(invoked) : invoked[i].id = id
                /\ deferred = <<>>)
    /\ [][invoked' # invoked =>
             /\ invoked' = Append(invoked, invoked'[Len(invoked')])
             /\ invoked'[Len(invoked')].id = deferred[Len(deferred)].f
             /\ deferred' = SubSeq(deferred, 1, Len(deferred) - 1)]_vars

\* Handle re-raised a fault after two cleanups: the first invoked called
\* Must during the flush of a Must of the body and the handler of that
\* Must panicked; the other was invoked by the flush of Handle
C18_Witness ==
    /\ outcome = "panicked"
    /\ nreg = 2
    /\ Len(invoked) = 2
    /\ invoked[1].what = "must"
    /\ invoked[1].by = "bail"
    /\ invoked[2].by = "finishDefer"
    /\ invoked[2].p

\* the step starts a Handle deferred by finishDefer
NestedHandleStarts ==
    /\ AtHandle'
    /\ Len(frames') > 1
    /\ frames' # frames

\* the finishDefer whose deferred Handle the step starts
Enclosing == frames[Len(frames) - Len(frames') + 1]

\* C19: Handle terminates.  Every Handle deferred by finishDefer starts
\* with strictly fewer cleanup actions on the stack than that finishDefer
\* found, or with an empty stack when only handler markers were left;
\* entries are pushed by the body only, and every Handle that has started
\* leads to the completion of the run (Handle returns or re-raises) with
\* the stack empty, unless Fatal ends the process.
C19_HandleTerminates ==
    /\ [][NestedHandleStarts =>
             /\ Enclosing.k = "finishDefer"
             /\ \/ Pending(deferred') < Enclosing.id
                \/ deferred' = <<>> /\ Enclosing.id = 0]_vars
    /\ [][Len(deferred') > Len(deferred) => At("body")]_vars
    /\ (AtHandle ~> (outcome = "exited" \/ (Done /\ deferred = <<>>)))

\* the run completed after a recursion of depth two: the body panicked and
\* both cleanups panicked in turn, each caught by a deferred Handle
C19_Witness ==
    /\ outcome = "panicked"
    /\ deferred = <<>>
    /\ Len(faults) = 3
    /\ Len(invoked) = 2
    /\ invoked[1].what = "panics"
    /\ invoked[2].what = "panics"
    /\ invoked[2].by = "finishDefer"

\* Handle had intercepted an external fault when n writes had been made
InterceptedBy(n) ==
    \E w \in 1..n : writes[w].by = "Handle" /\ External(writes[w].r)

\* what C20 says whatever the flush: Panicking() is true exactly when
\* Handle has intercepted an external fault before; it is false for the
\* handlers of a Must of the body and for the cleanups of a flush started
\* by a Handle that recovered nil or the sentinel; once true it stays true.
PanickingIffIntercepted ==
    /\ inPanic <=> InterceptedBy(Len(writes))
    /\ \A i \in 1..Len(applied) :
          /\ applied[i].p <=> InterceptedBy(applied[i].nw)
          /\ (dets[applied[i].det].by = "Must"
                /\ dets[applied[i].det].cid = 0) => ~applied[i].p
          /\ applied[i].p => inPanic
    /\ \A i \in 1..Len(invoked) :
          /\ invoked[i].p <=> InterceptedBy(invoked[i].nw)
          /\ invoked[i].trig \in {"none", "errOurPanic"} => ~invoked[i].p
          /\ invoked[i].p => inPanic
          /\ \A j \in 1..i : invoked[j].p => invoked[i].p

\* C20 as stated: moreover Panicking() is false for every cleanup run by
\* the flush of an abort (the flush bail runs before raising the sentinel).
C20_FalseInEveryAbortFlush ==
    /\ PanickingIffIntercepted
    /\ \A i \in 1..Len(invoked) : invoked[i].by = "bail" => ~invoked[i].p

\* C20 as amended: Panicking() is false for every cleanup run by the flush
\* of an abort when no external fault was raised before; in the flush of a
\* Must called by a cleanup that Handle runs after intercepting a fault, it
\* is true.
C20_PanickingIffIntercepted ==
    /\ [](/\ PanickingIffIntercepted
          /\ \A i \in 1..Len(invoked) :
                invoked[i].by = "bail" =>
                    /\ invoked[i].nf = 0 => ~invoked[i].p
                    /\ invoked[i].p =>
                          \E j \in 1..(i - 1) :
                              /\ invoked[j].what = "must"
                              /\ invoked[j].p)
    /\ [][inPanic => inPanic']_vars
    /\ [][(inPanic' /\ ~inPanic) => Intercepting]_vars

\* a handler of a Must of the body saw false, the flush of its abort invoked
\* a cleanup that saw false and panicked, and the cleanup then invoked by
\* Handle and a handler of its failure saw true
C20_Witness ==
    /\ Len(invoked) = 2
    /\ invoked[1].by = "bail" /\ ~invoked[1].p
    /\ invoked[1].what = "panics"
    /\ invoked[2].by = "finishDefer" /\ invoked[2].p
    /\ \E i, j \in 1..Len(applied) :
          /\ dets[applied[i].det].cid = 0 /\ ~applied[i].p
          /\ dets[applied[j].det].by = "Defer" /\ applied[j].p

\* the handlers a detection is to run: those given to the Must or Defer
\* call, or the default handlers when none was given
Expected(d) ==
    IF dets[d].by = "Defer"
    THEN (IF dets[d].reg # <<>> THEN dets[d].reg ELSE defaultHandlers)
    ELSE (IF dets[d].hs # <<>> THEN dets[d].hs ELSE defaultHandlers)

\* a detection made in a cleanup while the slot already held an error
Later(d) ==
    /\ dets[d].old # Nil
    /\ dets[d].by = "Defer" \/ dets[d].cid # 0

\* the step ends the chain of such a detection, its error having survived
LaterSurvives ==
    /\ Running
    /\ Top.k \in {"processError", "processDeferError"}
    /\ Top.chain = <<>>
    /\ Later(Top.id)

\* C21: handlers still run on later detections.  An error detected by a
\* failing cleanup, or by a Must called by a cleanup, while the slot is
\* non-nil has its effective chain applied in order, each handler being
\* given the previous one's result and seeing the recorded error through
\* State.Err(); the result of the chain is not stored: the slot and its
\* writes are unchanged when the chain ends.
C21_LaterHandlersRun ==
    /\ [](\A d \in 1..Len(dets) :
             Later(d) =>
                 /\ Names(dets[d].chain) = Expected(d)
                 /\ \A i \in 1..Len(applied) :
                       applied[i].det = d =>
                           /\ applied[i].h = Expected(d)[Pos(i)]
                           /\ applied[i].serr = dets[d].old
                           /\ applied[i].h \in {"inc", "dec", "Discard"} =>
                                 applied[i].in =
                                    Compose(SubSeq(Expected(d), 1, Pos(i) - 1),
                                            dets[d].e)
                 /\ dets[d].res = "survived" =>
                       /\ Cardinality({i \in 1..Len(applied) :
                                          applied[i].det = d})
                             = Len(Expected(d))
                       /\ dets[d].out = Compose(Expected(d), dets[d].e)
                       /\ err # Nil)
    /\ [][LaterSurvives =>
             /\ err' = err
             /\ writes' = writes
             /\ applied' = applied]_vars

\* with an error recorded by a Must of the body, a cleanup called Must and
\* the default inc was applied to its error, then a cleanup registered with
\* dec failed and dec was applied: both results differ from the slot, which
\* still holds the error of the body's Must
C21_Witness ==
    /\ faults = <<>>
    /\ Len(writes) = 1
    /\ \E c, d \in 1..Len(dets) :
          /\ dets[c].by = "Must" /\ dets[c].cid # 0 /\ dets[c].old # Nil
          /\ dets[c].res = "survived"
          /\ dets[c].out.v = dets[c].e.v + 1
          /\ dets[d].by = "Defer" /\ dets[d].old # Nil
          /\ dets[d].res = "survived"
          /\ dets[d].out.v = dets[d].e.v - 1
          /\ err = dets[d].old
          /\ err # dets[c].out /\ err # dets[d].out

\* the cleanup failures whose error survived its chain
Survivors == {d \in 1..Len(dets) :
                 dets[d].by = "Defer" /\ dets[d].res = "survived"}

\* the first of them in the order of execution
FirstSurvivor == CHOOSE d \in Survivors : \A c \in Survivors : d <= c

\* C22: first cleanup error wins.  When no external fault was raised and
\* the slot was nil at the first cleanup failure that survived its chain,
\* the slot holds the result of that chain from then on, up to and after
\* the completion of Handle; that cleanup is the one registered last among
\* those whose error survived, it made the only write, and the errors of
\* the cleanups executed later are not stored.
C22_FirstCleanupErrorWins ==
    [](( /\ faults = <<>>
         /\ Survivors # {}
         /\ dets[FirstSurvivor].old = Nil ) =>
           /\ err = dets[FirstSurvivor].out
           /\ writes = <<[by |-> "processDeferError", old |-> Nil,
                          val |-> dets[FirstSurvivor].out, r |-> NoPanic]>>
           /\ \A d \in Survivors :
                 d # FirstSurvivor =>
                     /\ dets[d].cid < dets[FirstSurvivor].cid
                     /\ dets[d].old = err)

\* Handle returned after a clean body: both cleanups failed, their errors
\* survived and differ, and the slot holds that of the cleanup registered
\* last, which was executed first
C22_Witness ==
    /\ outcome = "returned"
    /\ faults = <<>>
    /\ Len(dets) = 2
    /\ Survivors = {1, 2}
    /\ dets[1].cid = 2 /\ dets[2].cid = 1
    /\ dets[1].out # dets[2].out
    /\ err = dets[1].out

\* the step is a cleanup action returning a non-nil error
CleanupFailing ==
    /\ Len(invoked') = Len(invoked) + 1
    /\ invoked'[Len(invoked')].what = "fails"

\* the place of the failing action on the stack before the step
FailingAt ==
    CHOOSE n \in 1..Len(deferred) :
        deferred[n].f = invoked'[Len(invoked')].id

\* the handlers of the contiguous markers above place n (towards the top),
\* and below it (towards the base), the nearest first
RunAbove(n) ==
    [i \in 1..Cardinality({k \in (n + 1)..Len(deferred) :
                              \A j \in (n + 1)..k : deferred[j].f = 0}) |->
        deferred[n + i].x]

RunBelow(n) ==
    [i \in 1..Cardinality({k \in 1..(n - 1) :
                              \A j \in k..(n - 1) : deferred[j].f = 0}) |->
        deferred[n - i].x]

\* C23 as stated: the handlers applied to the error of a failing cleanup
\* are those of the markers immediately above its entry on the stack, and
\* the default handlers if there is none.
C23_MarkersAbove ==
    [][CleanupFailing =>
          Names(frames'[1].chain) =
             IF RunAbove(FailingAt) # <<>> THEN RunAbove(FailingAt)
             ELSE defaultHandlers]_vars

\* C23 as amended: the failing action is the top entry of the stack, and
\* the handlers applied to its error are those of the contiguous markers
\* immediately below it, the nearest first, down to the next action entry;
\* the default handlers if there is none.  The markers stay on the stack:
\* the flush skips them afterwards.
C23_MarkersBelow ==
    [][CleanupFailing =>
          /\ FailingAt = Len(deferred)
          /\ frames'[1].k = "processDeferError"
          /\ Names(frames'[1].chain) =
                IF RunBelow(FailingAt) # <<>> THEN RunBelow(FailingAt)
                ELSE defaultHandlers
          /\ \A i \in 1..Len(frames'[1].chain) :
                frames'[1].chain[i].src =
                   IF RunBelow(FailingAt) # <<>> THEN "defer" ELSE "default"
          /\ deferred' = SubSeq(deferred, 1, FailingAt - 1)]_vars

\* the cleanup registered second, without handlers, failed on a funnel with
\* the default inc while the cleanup registered with dec lay below it: inc
\* was applied to it; then the first failed and dec was applied
C23_Witness ==
    /\ defaultHandlers = <<"inc">>
    /\ Len(dets) = 2
    /\ dets[1].by = "Defer" /\ dets[1].cid = 2
    /\ Names(dets[1].chain) = <<"inc">>
    /\ dets[2].by = "Defer" /\ dets[2].cid = 1
    /\ Names(dets[2].chain) = <<"dec">>
    /\ \E i \in 1..Len(applied) :
          applied[i].det = 2 /\ applied[i].h = "dec"

====
